---- MODULE Spec2Model ----
(***************************************************************************)
(* analyze_eeg.py: main() reads a path, analyze_eeg(path) loads the CSV,   *)
(* builds and filters the raw object, plots, slices epochs, computes the   *)
(* source estimate and opens the 3D viewer; main() then sets the lateral   *)
(* view, or prints one error message when anything raised.                 *)
(*                                                                         *)
(* One run is the record of pc, active, env, figures, stdout and trace.    *)
(* The statements are pure operators on that record; the actions apply     *)
(* them to the run held in the variables and, in PairSpec, to a second run *)
(* (twin) of the same script in the same environment on a CSV that agrees  *)
(* with the first on its first eight columns.                              *)
(***************************************************************************)
EXTENDS Integers, Sequences, FiniteSets, TLC

VARIABLES pc, active, env, figures, stdout, trace, twin

vars == <<pc, active, env, figures, stdout, trace, twin>>

\* ---------------------------------------------------------------- bounds
\* Largest number of columns and of data rows of a CSV the reader returns.
MaxCols == 9
MaxRows == 1

\* Paths the user may type at the prompt.
Paths == {"eeg.csv", "notes.txt"}

\* ------------------------------------------------------ program constants
\* A channel list that lost its last name.
ch_names_seven == <<"Fz", "C3", "Cz", "C4", "Pz", "PO7", "Oz">>

ch_names == <<"Fz", "C3", "Cz", "C4", "Pz", "PO7", "Oz", "PO8">>
n_eeg == 8
ch_types == [i \in 1..n_eeg |-> "eeg"]
sfreq == 250
l_freq == 1
h_freq == 30
notch_freq == 50
iloc_start == 0
iloc_stop == 8
scaling_uV == 100
fmax == 30
n_channels == 8
smoothing_steps == 7

None == [op |-> "None"]

\* ------------------------------------------------------------ CSV inputs
\* Header names a CSV may carry: the channel names in reverse order (so that
\* binding by name and binding by position differ), then generic names.
HeaderNames == <<"PO8", "Oz", "PO7", "Pz", "C4", "Cz", "C3", "Fz",
                 "Battery", "Counter", "Valid", "Extra">>
GenericNames == <<"c0", "c1", "c2", "c3", "c4", "c5", "c6", "c7",
                  "c8", "c9", "c10", "c11">>

\* pd.read_csv's result: column labels, a 0-based RangeIndex and the cells.
DataFrame(cols, idx, cells) ==
    [op |-> "DataFrame", columns |-> cols, index |-> idx, values |-> cells]

\* The frames read_csv may return: every shape up to MaxRows x MaxCols, either
\* header, all cells 0 except at most one cell that is 1.
Frames ==
    { DataFrame([c \in 1..n |-> names[c]], [r \in 1..m |-> r - 1],
                [r \in 1..m |-> [c \in 1..n |-> IF <<r, c>> = hot THEN 1 ELSE 0]])
      : <<n, m, hot, names>> \in
          { <<n, m, hot, names>> \in
              (0..MaxCols) \X (0..MaxRows) \X ((0..MaxRows) \X (0..MaxCols))
                  \X {HeaderNames, GenericNames}
            : \/ hot = <<0, 0>>
              \/ hot[1] \in 1..m /\ hot[2] \in 1..n } }

Min(a, b) == IF a < b THEN a ELSE b

\* A slice that takes its stop as the last position instead of one past it.
iloc_inclusive(df, lo, hi) ==
    LET n == Len(df.columns)
        a == Min(lo, n) + 1
        b == Min(hi + 1, n)
    IN  DataFrame(SubSeq(df.columns, a, b), df.index,
                  [r \in 1..Len(df.index) |-> SubSeq(df.values[r], a, b)])

\* df.iloc[:, lo:hi]: the columns at 0-based positions lo..hi-1 that exist.
iloc(df, lo, hi) ==
    LET n == Len(df.columns)
        a == Min(lo, n) + 1
        b == Min(hi, n)
    IN  DataFrame(SubSeq(df.columns, a, b), df.index,
                  [r \in 1..Len(df.index) |-> SubSeq(df.values[r], a, b)])

\* df.T: rows become columns; the labels swap with them.
T(df) ==
    DataFrame(df.index, df.columns,
              [c \in 1..Len(df.columns) |->
                  [r \in 1..Len(df.index) |-> df.values[r][c]]])

\* np.asanyarray(df): the cells without the labels.
asanyarray(df) == df.values

\* ------------------------------------------------------- local variables
\* The names load_and_prepare_data, analyze_eeg and main bind, each None until
\* its assignment has run. raw names one object in both functions (returned
\* at line 38, bound at line 43); brain names the viewer in analyze_eeg and,
\* once returned at line 112, as main's brain_view (line 122).
Names == {"file_path", "data", "eeg_data", "info", "raw", "montage",
          "spectrum", "events", "epochs", "evoked", "frequencies",
          "subjects_dir", "src", "model", "bem", "fwd", "inverse_operator",
          "stc", "brain"}

EmptyEnv == [n \in Names |-> None]

\* ------------------------------------------- statements of the pipeline
\* Each takes the bindings before the call and gives the bindings after its
\* return.
read_csv(e, df) == [e EXCEPT !.data = df]

iloc_T(e) == [e EXCEPT !.eeg_data = T(iloc(e.data, iloc_start, iloc_stop))]

create_info(e) ==
    [e EXCEPT !.info = [op |-> "Info", ch_names |-> ch_names,
                        sfreq |-> sfreq, ch_types |-> ch_types]]

\* mne.io.RawArray refuses data whose first dimension is not the number of
\* channel names of info.
RawArray_raises(e) == Len(asanyarray(e.eeg_data)) # Len(e.info.ch_names)

RawArray(e) ==
    [e EXCEPT !.raw = [op |-> "Raw", data |-> asanyarray(e.eeg_data),
                       info |-> e.info, filters |-> <<>>, montage |-> None]]

\* A band-pass whose result is thrown away instead of replacing raw's data.
filter_discarded(e) == e

filter(e) ==
    [e EXCEPT !.raw.filters =
        Append(@, [op |-> "bandpass", l_freq |-> l_freq, h_freq |-> h_freq])]

\* A notch at the 60 Hz mains frequency.
notch_filter_60(e) ==
    [e EXCEPT !.raw.filters = Append(@, [op |-> "notch", freqs |-> 60])]

notch_filter(e) ==
    [e EXCEPT !.raw.filters = Append(@, [op |-> "notch", freqs |-> notch_freq])]

make_standard_montage(e) ==
    [e EXCEPT !.montage = [op |-> "DigMontage", kind |-> "standard_1020"]]

set_montage(e) ==
    [e EXCEPT !.raw.montage = [montage |-> e.montage, match_case |-> FALSE]]

compute_psd(e) ==
    [e EXCEPT !.spectrum = [op |-> "Spectrum", raw |-> e.raw, fmax |-> fmax]]

make_fixed_length_events(e) ==
    [e EXCEPT !.events = [op |-> "events", raw |-> e.raw, duration |-> 1]]

Epochs(e) ==
    [e EXCEPT !.epochs = [op |-> "Epochs", raw |-> e.raw, events |-> e.events,
                          tmin |-> 0, tmax |-> 1]]

average(e) ==
    [e EXCEPT !.evoked = [op |-> "Evoked", epochs |-> e.epochs,
                          info |-> e.epochs.raw.info]]

arange(e) ==
    [e EXCEPT !.frequencies = [op |-> "arange", start |-> 1, stop |-> 50,
                               step |-> 1]]

data_path(e) ==
    [e EXCEPT !.subjects_dir = [op |-> "Path", dataset |-> "sample",
                                child |-> "subjects"]]

setup_source_space(e) ==
    [e EXCEPT !.src = [op |-> "SourceSpaces", subject |-> "fsaverage",
                       spacing |-> "oct6", subjects_dir |-> e.subjects_dir]]

make_bem_model(e) ==
    [e EXCEPT !.model = [op |-> "bem_model", subject |-> "fsaverage",
                         layers |-> 1, subjects_dir |-> e.subjects_dir]]

make_bem_solution(e) ==
    [e EXCEPT !.bem = [op |-> "ConductorModel", model |-> e.model]]

make_forward_solution(e) ==
    [e EXCEPT !.fwd = [op |-> "Forward", info |-> e.evoked.info,
                       trans |-> "fsaverage", src |-> e.src, bem |-> e.bem]]

make_inverse_operator(e) ==
    [e EXCEPT !.inverse_operator =
        [op |-> "InverseOperator", info |-> e.evoked.info, fwd |-> e.fwd,
         fixed |-> TRUE]]

\* The inverse applied to the epochs instead of their average.
apply_inverse_epochs(e) ==
    [e EXCEPT !.stc = [op |-> "SourceEstimate", evoked |-> e.epochs,
                       inverse_operator |-> e.inverse_operator]]

apply_inverse(e) ==
    [e EXCEPT !.stc = [op |-> "SourceEstimate", evoked |-> e.evoked,
                       inverse_operator |-> e.inverse_operator]]

Brain(e) ==
    [e EXCEPT !.brain = [op |-> "Brain", subject |-> "fsaverage",
                         subjects_dir |-> e.subjects_dir, hemi |-> "both",
                         data |-> None, sensors |-> None, view |-> None]]

add_data(e) ==
    [e EXCEPT !.brain.data = [stc |-> e.stc,
                              smoothing_steps |-> smoothing_steps]]

add_sensors(e) == [e EXCEPT !.brain.sensors = e.evoked.info]

\* plt.show() returns, analyze_eeg returns brain, main binds it: no object
\* changes.
plt_show(e) == e

\* Another of the viewer's named views.
show_view_dorsal(e) ==
    [e EXCEPT !.brain.view = [op |-> "str", s |-> "dorsal"]]

show_view(e) ==
    [e EXCEPT !.brain.view = [op |-> "str", s |-> "lateral"]]

\* ------------------------------------------------------- the statement order
\* The library calls of analyze_eeg(file_path) followed by main's show_view,
\* in the order the source executes them (lines 8-36, 49-111, 123).
\* The order of the overview: the montage attached before the filters run.
Program_montage_first ==
    <<"read_csv", "iloc_T", "create_info", "RawArray",
      "make_standard_montage", "set_montage", "filter", "notch_filter",
      "plot", "compute_psd", "spectrum_plot",
      "make_fixed_length_events", "Epochs", "average",
      "arange", "plot_psd_topomap",
      "fetch_fsaverage", "data_path", "setup_source_space",
      "make_bem_model", "make_bem_solution", "make_forward_solution",
      "make_inverse_operator", "apply_inverse",
      "Brain", "add_data", "add_sensors", "plt_show",
      "show_view">>

\* The view set inside analyze_eeg, before the blocking plt.show().
Program_view_before_show ==
    <<"read_csv", "iloc_T", "create_info", "RawArray", "filter",
      "notch_filter", "make_standard_montage", "set_montage",
      "plot", "compute_psd", "spectrum_plot",
      "make_fixed_length_events", "Epochs", "average",
      "arange", "plot_psd_topomap",
      "fetch_fsaverage", "data_path", "setup_source_space",
      "make_bem_model", "make_bem_solution", "make_forward_solution",
      "make_inverse_operator", "apply_inverse",
      "Brain", "add_data", "add_sensors", "show_view",
      "plt_show">>

\* The raw trace plotted after the PSD.
Program_psd_first ==
    <<"read_csv", "iloc_T", "create_info", "RawArray", "filter",
      "notch_filter", "make_standard_montage", "set_montage",
      "compute_psd", "spectrum_plot", "plot",
      "make_fixed_length_events", "Epochs", "average",
      "arange", "plot_psd_topomap",
      "fetch_fsaverage", "data_path", "setup_source_space",
      "make_bem_model", "make_bem_solution", "make_forward_solution",
      "make_inverse_operator", "apply_inverse",
      "Brain", "add_data", "add_sensors", "plt_show",
      "show_view">>

Program ==
    <<"read_csv", "iloc_T", "create_info", "RawArray", "filter",
      "notch_filter", "make_standard_montage", "set_montage",
      "plot", "compute_psd", "spectrum_plot",
      "make_fixed_length_events", "Epochs", "average",
      "arange", "plot_psd_topomap",
      "fetch_fsaverage", "data_path", "setup_source_space",
      "make_bem_model", "make_bem_solution", "make_forward_solution",
      "make_inverse_operator", "apply_inverse",
      "Brain", "add_data", "add_sensors", "plt_show",
      "show_view">>

Sites == {Program[i] : i \in 1..Len(Program)}

IndexOf(site) == CHOOSE i \in 1..Len(Program) : Program[i] = site

\* Where control goes when the call at site returns.
Following(site) ==
    IF IndexOf(site) < Len(Program) THEN Program[IndexOf(site) + 1] ELSE "done"

\* The local names each statement reads.
Reads(site) ==
    CASE site = "read_csv" -> {"file_path"}
      [] site = "iloc_T" -> {"data"}
      [] site = "RawArray" -> {"eeg_data", "info"}
      [] site \in {"filter", "notch_filter", "plot", "compute_psd",
                   "make_fixed_length_events"} -> {"raw"}
      [] site = "set_montage" -> {"raw", "montage"}
      [] site = "spectrum_plot" -> {"spectrum"}
      [] site = "Epochs" -> {"raw", "events"}
      [] site \in {"average", "plot_psd_topomap"} -> {"epochs"}
      [] site \in {"setup_source_space", "make_bem_model", "Brain"}
            -> {"subjects_dir"}
      [] site = "make_bem_solution" -> {"model"}
      [] site = "make_forward_solution" -> {"evoked", "src", "bem"}
      [] site = "make_inverse_operator" -> {"evoked", "fwd"}
      [] site = "apply_inverse" -> {"evoked", "inverse_operator"}
      [] site = "add_data" -> {"brain", "stc"}
      [] site = "add_sensors" -> {"brain", "evoked"}
      [] site = "show_view" -> {"brain"}
      [] OTHER -> {}

\* The bindings after the call at site has returned (df: what read_csv read).
Effect(site, e, df) ==
    CASE site = "read_csv" -> read_csv(e, df)
      [] site = "iloc_T" -> iloc_T(e)
      [] site = "create_info" -> create_info(e)
      [] site = "RawArray" -> RawArray(e)
      [] site = "filter" -> filter(e)
      [] site = "notch_filter" -> notch_filter(e)
      [] site = "make_standard_montage" -> make_standard_montage(e)
      [] site = "set_montage" -> set_montage(e)
      [] site = "compute_psd" -> compute_psd(e)
      [] site = "make_fixed_length_events" -> make_fixed_length_events(e)
      [] site = "Epochs" -> Epochs(e)
      [] site = "average" -> average(e)
      [] site = "arange" -> arange(e)
      [] site = "data_path" -> data_path(e)
      [] site = "setup_source_space" -> setup_source_space(e)
      [] site = "make_bem_model" -> make_bem_model(e)
      [] site = "make_bem_solution" -> make_bem_solution(e)
      [] site = "make_forward_solution" -> make_forward_solution(e)
      [] site = "make_inverse_operator" -> make_inverse_operator(e)
      [] site = "apply_inverse" -> apply_inverse(e)
      [] site = "Brain" -> Brain(e)
      [] site = "add_data" -> add_data(e)
      [] site = "add_sensors" -> add_sensors(e)
      [] site = "plt_show" -> plt_show(e)
      [] site = "show_view" -> show_view(e)
      [] OTHER -> e

\* The calls that cannot return on the bindings they are given.
MustRaise(site, e) == site = "RawArray" /\ RawArray_raises(e)

\* The picture a plotting call puts on screen, with the object it draws.
Plots == {"plot", "spectrum_plot", "plot_psd_topomap", "add_data"}

Figure(site, e) ==
    CASE site = "plot" ->
            [kind |-> "raw_trace", title |-> "Raw EEG Data", shows |-> e.raw,
             scalings |-> scaling_uV, n_channels |-> n_channels]
      [] site = "spectrum_plot" ->
            [kind |-> "psd", title |-> "", shows |-> e.spectrum]
      [] site = "plot_psd_topomap" ->
            [kind |-> "band_topomaps", title |-> "", shows |-> e.epochs]
      [] site = "add_data" ->
            [kind |-> "source_estimate_3d",
             title |-> "3D Brain Activity Visualization", shows |-> e.stc]

\* ------------------------------------------------------------- one run
\* pc: "banner", "input", a site of Program, "except" or "done";
\* active: the call at pc has started and neither returned nor raised;
\* trace: the calls started, returned and raised so far, oldest first.
Start ==
    [pc |-> "banner", active |-> FALSE, env |-> EmptyEnv, figures |-> <<>>,
     stdout |-> <<>>, trace |-> <<>>]

Event(ev, site) == [ev |-> ev, site |-> site]

\* Lines 115-116.
Banner(s) ==
    [s EXCEPT !.pc = "input",
              !.stdout = s.stdout \o <<"EEG Analysis Tool", "----------------">>]

\* Line 119.
Input(s, path) ==
    [s EXCEPT !.pc = Program[1],
              !.env.file_path = [op |-> "str", s |-> path],
              !.trace = Append(@, Event("input", "input"))]

\* A statement starts: its names are looked up (an unbound one raises before
\* anything is called), then the library call begins.
Begin(s) ==
    IF \E n \in Reads(s.pc) : s.env[n] = None
    THEN [s EXCEPT !.pc = "except",
                   !.trace = Append(@, Event("unbound", s.pc))]
    ELSE [s EXCEPT !.active = TRUE, !.trace = Append(@, Event("call", s.pc))]

\* The call at pc returns: its result is bound, its picture is on screen, and
\* control moves to the statement that follows.
Finish(s, df) ==
    [pc |-> Following(s.pc), active |-> FALSE,
     env |-> Effect(s.pc, s.env, df),
     figures |-> IF s.pc \in Plots
                 THEN Append(s.figures, Figure(s.pc, s.env))
                 ELSE s.figures,
     stdout |-> s.stdout,
     trace |-> Append(s.trace, Event("ret", s.pc))]

\* The call at pc raises an Exception: lines 121-124 hand it to the handler.
Fail(s) ==
    [s EXCEPT !.pc = "except", !.active = FALSE,
              !.trace = Append(@, Event("raise", s.pc))]

\* A handler that prints nothing.
Except_silent(s) == [s EXCEPT !.pc = "done"]

\* Line 125, then main returns.
Except(s) ==
    [s EXCEPT !.pc = "done", !.stdout = Append(@, "An error occurred")]

\* ------------------------------------------------------ the second run
\* The first k columns of a frame, as cells only.
FirstColumns(df, k) ==
    [c \in 1..Min(k, Len(df.columns)) |->
        [r \in 1..Len(df.index) |-> df.values[r][c]]]

\* The frames that agree with df on the values of their first eight columns.
Twins(df) ==
    {d \in Frames : FirstColumns(d, n_eeg) = FirstColumns(df, n_eeg)}

Off == [pc |-> "off"]

\* The second run takes the step of the same kind at its own position, with
\* the same answer of the environment.
FollowBanner(t) == IF t.pc = "banner" THEN Banner(t) ELSE t

FollowInput(t, path) == IF t.pc = "input" THEN Input(t, path) ELSE t

FollowBegin(t) == IF t.pc \in Sites /\ ~t.active THEN Begin(t) ELSE t

FollowFinish(t, df) ==
    IF t.pc \in Sites /\ t.active
    THEN IF MustRaise(t.pc, t.env) THEN Fail(t) ELSE Finish(t, df)
    ELSE t

FollowFail(t) == IF t.pc \in Sites /\ t.active THEN Fail(t) ELSE t

FollowExcept(t) == IF t.pc = "except" THEN Except(t) ELSE t

\* ------------------------------------------------------------- actions
Me ==
    [pc |-> pc, active |-> active, env |-> env, figures |-> figures,
     stdout |-> stdout, trace |-> trace]

Advance(s) ==
    /\ pc' = s.pc
    /\ active' = s.active
    /\ env' = s.env
    /\ figures' = s.figures
    /\ stdout' = s.stdout
    /\ trace' = s.trace

Init ==
    /\ pc = Start.pc
    /\ active = Start.active
    /\ env = Start.env
    /\ figures = Start.figures
    /\ stdout = Start.stdout
    /\ trace = Start.trace
    /\ twin = Off

InitPair ==
    /\ pc = Start.pc
    /\ active = Start.active
    /\ env = Start.env
    /\ figures = Start.figures
    /\ stdout = Start.stdout
    /\ trace = Start.trace
    /\ twin = Start

main_banner ==
    /\ pc = "banner"
    /\ Advance(Banner(Me))
    /\ twin' = FollowBanner(twin)

main_input ==
    /\ pc = "input"
    /\ \E path \in Paths :
          /\ Advance(Input(Me, path))
          /\ twin' = FollowInput(twin, path)

Call ==
    /\ pc \in Sites
    /\ ~active
    /\ Advance(Begin(Me))
    /\ twin' = FollowBegin(twin)

Return ==
    /\ pc \in Sites
    /\ active
    /\ ~MustRaise(pc, env)
    /\ \E df \in IF pc = "read_csv" THEN Frames ELSE {None} :
       \E df2 \in IF pc = "read_csv" /\ twin # Off THEN Twins(df) ELSE {df} :
          /\ Advance(Finish(Me, df))
          /\ twin' = FollowFinish(twin, df2)

Raise ==
    /\ pc \in Sites
    /\ active
    /\ Advance(Fail(Me))
    /\ twin' = FollowFail(twin)

main_except ==
    /\ pc = "except"
    /\ Advance(Except(Me))
    /\ twin' = FollowExcept(twin)

Next ==
    \/ main_banner
    \/ main_input
    \/ Call
    \/ Return
    \/ Raise
    \/ main_except

Spec == Init /\ [][Next]_vars

\* Every library call returns or raises, and the interpreter keeps running.
FairSpec == Init /\ [][Next]_vars /\ WF_vars(Next)

\* Two runs in step on CSVs that agree on their first eight columns.
PairSpec == InitPair /\ [][Next]_vars

\* ------------------------------------------------- reading the trace
\* The positions of the trace at which site started, returned, failed.
At(ev, site) == {i \in DOMAIN trace : trace[i] = Event(ev, site)}

Started(site) == At("call", site) # {}

Returned(site) == At("ret", site) # {}

Failures == {i \in DOMAIN trace : trace[i].ev \in {"raise", "unbound"}}

\* site had returned before position i of the trace.
ReturnedBefore(site, i) == \E j \in At("ret", site) : j < i

InProgress ==
    Cardinality({i \in DOMAIN trace : trace[i].ev = "call"})
        - Cardinality({i \in DOMAIN trace : trace[i].ev \in {"ret", "raise"}})

ErrorsPrinted ==
    Cardinality({i \in DOMAIN stdout : stdout[i] = "An error occurred"})

Kinds(figs) == [i \in DOMAIN figs |-> figs[i].kind]

IsPrefix(a, b) == Len(a) <= Len(b) /\ a = SubSeq(b, 1, Len(a))

BandPass == [op |-> "bandpass", l_freq |-> 1, h_freq |-> 30]

Notch == [op |-> "notch", freqs |-> 50]

\* ------------------------------------------------------------------ C1
\* The seven stages as the overview lists them.
StatedStage(site) ==
    CASE site \in {"read_csv", "iloc_T"} -> 1
      [] site \in {"create_info", "RawArray", "make_standard_montage",
                   "set_montage"} -> 2
      [] site \in {"filter", "notch_filter"} -> 3
      [] site \in {"make_fixed_length_events", "Epochs", "average"} -> 4
      [] site \in {"plot", "compute_psd", "spectrum_plot", "arange",
                   "plot_psd_topomap"} -> 5
      [] site \in {"fetch_fsaverage", "data_path", "setup_source_space",
                   "make_bem_model", "make_bem_solution",
                   "make_forward_solution", "make_inverse_operator",
                   "apply_inverse"} -> 6
      [] OTHER -> 7

\* The stages as the code runs them: montage attachment follows filtering,
\* the raw-trace and PSD plots precede epoch slicing, the topomaps follow it.
CodeStage(site) ==
    CASE site \in {"read_csv", "iloc_T"} -> 1
      [] site \in {"create_info", "RawArray"} -> 2
      [] site \in {"filter", "notch_filter"} -> 3
      [] site \in {"make_standard_montage", "set_montage"} -> 4
      [] site \in {"plot", "compute_psd", "spectrum_plot"} -> 5
      [] site \in {"make_fixed_length_events", "Epochs", "average"} -> 6
      [] site \in {"arange", "plot_psd_topomap"} -> 7
      [] site \in {"fetch_fsaverage", "data_path", "setup_source_space",
                   "make_bem_model", "make_bem_solution",
                   "make_forward_solution", "make_inverse_operator",
                   "apply_inverse"} -> 8
      [] OTHER -> 9

CallsAt == {i \in DOMAIN trace : trace[i].ev = "call"}

\* C1 as stated: the calls start in the order of the seven listed stages
\* (CSV reading, channel/montage labeling, filtering, epoch slicing,
\* spectral/topomap plotting, source modeling, 3D viewer), a call of a later
\* stage starts only when every call of the stage before it has returned,
\* and at most one call is in progress.
C1_StatedOrder ==
    /\ \A i, j \in CallsAt :
          i < j => StatedStage(trace[i].site) <= StatedStage(trace[j].site)
    /\ \A j \in CallsAt : \A site \in Sites :
          StatedStage(site) + 1 = StatedStage(trace[j].site)
              => ReturnedBefore(site, j)
    /\ InProgress \in {0, 1}

\* C1 as amended: the calls start in the order CSV reading, channel
\* labeling, band-pass + notch filtering, montage attachment, raw-trace and
\* PSD plotting, epoch slicing, topomap plotting, source modeling, 3D viewer;
\* a call of a later stage starts only when every call of the stage before
\* it has returned; at most one call is in progress, and it is the one at pc.
C1_CodeOrder ==
    /\ \A i, j \in CallsAt :
          i < j => CodeStage(trace[i].site) <= CodeStage(trace[j].site)
    /\ \A j \in CallsAt : \A site \in Sites :
          CodeStage(site) + 1 = CodeStage(trace[j].site)
              => ReturnedBefore(site, j)
    /\ InProgress = (IF active THEN 1 ELSE 0)
    /\ active => pc \in Sites /\ trace[Len(trace)] = Event("call", pc)

\* The last stage has started after all the others.
C1_Witness == pc = "show_view" /\ active

\* ------------------------------------------------------------------ C2
FourPictures == <<"raw_trace", "psd", "band_topomaps", "source_estimate_3d">>

\* C2: the pictures on screen are always the first few of raw trace, PSD,
\* band-power topomaps, 3D source estimate, in that order and without
\* repetition, and a run that ends with no call having failed has put all
\* four on screen.
C2_Visualizations ==
    /\ IsPrefix(Kinds(figures), FourPictures)
    /\ pc = "done" /\ Failures = {} => Kinds(figures) = FourPictures

C2_Witness == pc = "done" /\ Failures = {} /\ Len(figures) = 4

\* ------------------------------------------------------------------ C3
\* C3: whatever the path and the CSV, info names the 8 EEG channels Fz, C3,
\* Cz, C4, Pz, PO7, Oz, PO8 at 250 Hz, the filters applied to raw are the
\* first few of <<1-30 Hz band-pass, 50 Hz notch>>, and once
\* load_and_prepare_data has finished both are applied, once each and in
\* that order, and the standard_1020 montage is attached.
C3_FixedParameters ==
    /\ env.info # None =>
          /\ env.info.ch_names =
                <<"Fz", "C3", "Cz", "C4", "Pz", "PO7", "Oz", "PO8">>
          /\ env.info.ch_types = [i \in 1..8 |-> "eeg"]
          /\ env.info.sfreq = 250
    /\ env.raw # None =>
          /\ env.raw.info = env.info
          /\ IsPrefix(env.raw.filters, <<BandPass, Notch>>)
    /\ Returned("set_montage") =>
          /\ env.raw.filters = <<BandPass, Notch>>
          /\ env.raw.montage # None
          /\ env.raw.montage.montage.kind = "standard_1020"

C3_Witness ==
    /\ pc = "plot" /\ ~active
    /\ env.raw.montage # None
    /\ env.file_path.s = "notes.txt"
    /\ Len(env.data.columns) = 9

\* ------------------------------------------------------------------ C4
\* C4: once a call has raised nothing is called afterwards, no call is made
\* twice, the handler is the only thing left to run, and the run then ends
\* in "done" with exactly one error message on stdout.
C4_NoRecovery ==
    /\ \A i \in Failures : \A j \in DOMAIN trace :
          j > i => trace[j].ev \notin {"call", "ret"}
    /\ \A site \in Sites : Cardinality(At("call", site)) <= 1
    /\ Cardinality(Failures) <= 1
    /\ Failures # {} =>
          /\ pc \in {"except", "done"}
          /\ ~active
          /\ ErrorsPrinted = (IF pc = "done" THEN 1 ELSE 0)
          /\ pc = "except" => ENABLED main_except

C4_Witness ==
    /\ pc = "done"
    /\ At("raise", "make_forward_solution") # {}
    /\ ErrorsPrinted = 1

\* ------------------------------------------------------------------ C5
Filtered(raw) == raw # None /\ raw.filters = <<BandPass, Notch>>

AfterLoad ==
    {Program[i] : i \in {k \in 1..Len(Program) : k > IndexOf("set_montage")}}

\* C5: every call after load_and_prepare_data starts only when the band-pass
\* and the notch have both returned, the raw object it finds is the filtered
\* one, and so are the raw objects behind the 'Raw EEG Data' plot, the
\* spectrum, the events, the epochs and their average.
C5_FilteredDownstream ==
    /\ \A j \in CallsAt :
          trace[j].site \in AfterLoad =>
              ReturnedBefore("filter", j) /\ ReturnedBefore("notch_filter", j)
    /\ pc \in AfterLoad => Filtered(env.raw)
    /\ \A i \in DOMAIN figures :
          figures[i].title = "Raw EEG Data" => Filtered(figures[i].shows)
    /\ env.spectrum # None => Filtered(env.spectrum.raw)
    /\ env.events # None => Filtered(env.events.raw)
    /\ env.epochs # None => Filtered(env.epochs.raw)
    /\ env.evoked # None => Filtered(env.evoked.epochs.raw)
    /\ env.stc # None => Filtered(env.stc.evoked.epochs.raw)

C5_Witness ==
    /\ pc = "Epochs" /\ active
    /\ Len(figures) = 2
    /\ figures[1].title = "Raw EEG Data"

\* ------------------------------------------------------------------ C6
\* What a run shows of itself apart from the frame it read: its position, its
\* pictures, its messages, its calls, and every binding but data; of
\* eeg_data the cells, not the labels the frame carried.
Observable(s) ==
    [pc |-> s.pc, active |-> s.active, figures |-> s.figures,
     stdout |-> s.stdout, trace |-> s.trace,
     env |-> [n \in Names \ {"data"} |->
                IF n = "eeg_data" /\ s.env[n] # None
                THEN asanyarray(s.env[n])
                ELSE s.env[n]]]

\* C6: two runs on CSVs that agree on the values of their first eight
\* columns (whatever their headers and their other columns) are at the same
\* position with the same bindings, pictures, messages and calls at every
\* step; and row i of the raw data is column i of the CSV, under the i-th of
\* the fixed channel names.
C6_FirstEightColumns ==
    /\ twin # Off => Observable(Me) = Observable(twin)
    /\ env.raw # None =>
          /\ Len(env.raw.data) = 8
          /\ \A i \in 1..8 :
                /\ env.raw.data[i] =
                      [r \in 1..Len(env.data.index) |-> env.data.values[r][i]]
                /\ env.raw.info.ch_names[i] =
                      <<"Fz", "C3", "Cz", "C4", "Pz", "PO7", "Oz", "PO8">>[i]

C6_Witness ==
    /\ pc = "done" /\ Failures = {}
    /\ twin # Off
    /\ twin.pc = "done"
    /\ Len(env.data.columns) = 8
    /\ Len(twin.env.data.columns) = 9
    /\ env.data.columns # SubSeq(twin.env.data.columns, 1, 8)
    /\ \E r \in DOMAIN twin.env.data.values : twin.env.data.values[r][9] = 1

\* ------------------------------------------------------------------ C7
\* C7: no statement finds a name unbound; the forward solution starts after
\* the source space and the BEM solution have returned and is computed from
\* them, the inverse operator after and from the forward solution, the
\* source estimate after and from the inverse operator and the average of
\* the epochs the slicer cut from the events, and the viewer is given the
\* source estimate after it exists.
C7_SourceModelingInputs ==
    /\ \A i \in DOMAIN trace : trace[i].ev # "unbound"
    /\ \A j \in At("call", "make_forward_solution") :
          /\ ReturnedBefore("setup_source_space", j)
          /\ ReturnedBefore("make_bem_solution", j)
          /\ ReturnedBefore("average", j)
    /\ \A j \in At("call", "make_inverse_operator") :
          ReturnedBefore("make_forward_solution", j)
    /\ \A j \in At("call", "apply_inverse") :
          ReturnedBefore("make_inverse_operator", j)
    /\ \A j \in At("call", "add_data") : ReturnedBefore("apply_inverse", j)
    /\ env.fwd # None =>
          /\ env.fwd.src = env.src /\ env.src # None
          /\ env.fwd.bem = env.bem /\ env.bem # None
          /\ env.bem.model = env.model /\ env.model # None
    /\ env.inverse_operator # None =>
          env.inverse_operator.fwd = env.fwd /\ env.fwd # None
    /\ env.evoked # None =>
          /\ env.evoked.op = "Evoked"
          /\ env.evoked.epochs = env.epochs /\ env.epochs # None
          /\ env.epochs.events = env.events /\ env.events # None
    /\ env.stc # None =>
          /\ env.stc.inverse_operator = env.inverse_operator
          /\ env.inverse_operator # None
          /\ env.stc.evoked = env.evoked /\ env.evoked # None
    /\ env.brain # None /\ env.brain.data # None =>
          env.brain.data.stc = env.stc /\ env.stc # None

C7_Witness ==
    /\ env.brain # None
    /\ env.brain.data # None
    /\ pc = "add_sensors"

\* ------------------------------------------------------------------ C8
BeyondRawArray ==
    {Program[i] : i \in {k \in 1..Len(Program) : k > IndexOf("RawArray")}}

\* C8: when the CSV read has fewer than 8 columns, the extracted data has
\* fewer than 8 rows, RawArray never returns, no raw object, filter, plot or
\* later call exists, no picture is on screen, the run can always go on
\* until it is done, and it is done with the error message printed.
C8_FewColumns ==
    env.data # None /\ Len(env.data.columns) < 8 =>
        /\ env.eeg_data # None => Len(asanyarray(env.eeg_data)) < 8
        /\ ~Returned("RawArray")
        /\ env.raw = None
        /\ \A i \in DOMAIN trace : trace[i].site \notin BeyondRawArray
        /\ figures = <<>>
        /\ pc # "done" => ENABLED Next
        /\ pc = "done" => ErrorsPrinted = 1 /\ Failures # {}

C8_Witness ==
    /\ pc = "done"
    /\ env.data # None
    /\ Len(env.data.columns) = 7
    /\ At("raise", "RawArray") # {}

\* ------------------------------------------------------------------ C9
\* C9: show_view starts only when every call of analyze_eeg, plt.show()
\* included, has returned and nothing has failed; a run in which one of
\* those calls failed never starts it.
C9_LateralView ==
    /\ \A j \in At("call", "show_view") :
          /\ \A site \in Sites \ {"show_view"} : ReturnedBefore(site, j)
          /\ \A i \in Failures : i > j
    /\ (\E i \in Failures : trace[i].site # "show_view")
          => ~Started("show_view")
    /\ env.brain # None /\ env.brain.view # None =>
          Returned("plt_show") /\ Failures = {}

C9_Witness ==
    /\ env.brain # None
    /\ env.brain.view # None
    /\ env.brain.view.s = "lateral"

\* ----------------------------------------------------------------- C10
Inputs == {i \in DOMAIN trace : trace[i].ev = "input"}

Success ==
    /\ \A site \in Sites : Returned(site)
    /\ env.brain # None
    /\ env.brain.view = [op |-> "str", s |-> "lateral"]
    /\ ErrorsPrinted = 0

Error == ErrorsPrinted = 1

C10_Outcome ==
    /\ Cardinality(Inputs) <= 1
    /\ pc \notin {"banner", "input"} => Inputs = {1}
    /\ pc = "done" => (Success \/ Error) /\ ~(Success /\ Error)
    /\ pc # "done" => ErrorsPrinted = 0

====
